---- MODULE Spec2Model ----
(***************************************************************************)
(* Model of src/lambda/app.py: the AWS Lambda function that turns the web  *)
(* preview page of a public Telegram channel into an RSS feed.             *)
(*                                                                         *)
(* Text is modelled as a sequence of tokens.  The characters the code      *)
(* treats specially ('<', '>', '&', '"', the apostrophe, '/', white space) *)
(* are one token each; an entity ("&amp;"), a tag start ("<a"), an         *)
(* attribute name with its '=' (" href=") or a URL scheme ("http://") is   *)
(* one token as well.  A DOM node is a record (name, attrs, kids, s).      *)
(***************************************************************************)
EXTENDS Integers, Sequences, FiniteSets, TLC

VARIABLES
    pc,         \* position of the request inside lambda_handler
    event,      \* the Lambda event of the request
    response,   \* the value lambda_handler returns
    fetches,    \* number of requests.get calls made so far
    coreCalls,  \* number of get_rss_feed invocations so far
    fetched,    \* outcome of requests.get: status code and page
    idx,        \* number of bubbles the loop of get_rss_feed has consumed
    items,      \* the items list of get_rss_feed
    fn,         \* name of the helper function applied ("none": not yet)
    arg,        \* the argument the helper is applied to
    res         \* the helper's return value

vars == <<pc, event, response, fetches, coreCalls, fetched, idx, items, fn, arg, res>>

handlerVars == <<pc, event, response, fetches, coreCalls, fetched, idx, items>>

-----------------------------------------------------------------------------
(* Bounds of the model. *)

MaxTextLen == 3

MaxNodes == 2

MaxValueLen == 3

MaxBubbles == 2

MaxMedia == 1

-----------------------------------------------------------------------------
(* Python values. *)

None == [tag |-> "None", s |-> <<>>]

Str(s) == [tag |-> "str", s |-> s]

\* Python truthiness of an Optional[str]: None and "" are falsy.
Falsy(x) == x.tag = "None" \/ x.s = <<>>

RECURSIVE Concat(_)
\* "".join(parts)
Concat(parts) ==
    IF parts = <<>> THEN <<>> ELSE Head(parts) \o Concat(Tail(parts))

\* needle in haystack, for a needle of one token
Contains(haystack, needle) == \E i \in 1..Len(haystack) : haystack[i] = needle

-----------------------------------------------------------------------------
(* html.escape and autolink_plain. *)

Schemes == {"http://", "https://"}

\* the characters URL_RE's class [^\s<>"'] excludes
UrlStop == {" ", "<", ">", "\"", "'"}

EscapeChar(c, quote) ==
    CASE c = "&" -> "&amp;"
      [] c = "<" -> "&lt;"
      [] c = ">" -> "&gt;"
      [] c = "\"" /\ quote -> "&quot;"
      [] c = "'" /\ quote -> "&#x27;"
      [] OTHER -> c

\* html.escape(s, quote)
html_escape(s, quote) == [i \in 1..Len(s) |-> EscapeChar(s[i], quote)]

\* URL_RE matches at position k: a scheme followed by at least one character
\* outside UrlStop.
UrlAt(text, k) ==
    /\ k + 1 <= Len(text)
    /\ text[k] \in Schemes
    /\ text[k + 1] \notin UrlStop

\* start of the leftmost match of URL_RE at or after position from; 0 if none
NextUrl(text, from) ==
    IF \E k \in from..Len(text) : UrlAt(text, k)
    THEN CHOOSE k \in from..Len(text) :
            UrlAt(text, k) /\ \A j \in from..(k - 1) : ~UrlAt(text, j)
    ELSE 0

\* last position of the greedy match that starts at k
UrlEnd(text, k) ==
    CHOOSE e \in (k + 1)..Len(text) :
        /\ \A j \in (k + 1)..e : text[j] \notin UrlStop
        /\ (e = Len(text) \/ text[e + 1] \in UrlStop)

Anchor_fixed_label(safe_url) ==
    <<"<a", " href=", "\"">> \o safe_url
        \o <<"\"", " rel=", "\"", "noopener", "\"", " target=", "\"", "_blank", "\"", ">">>
        \o <<"link", "</a>">>

\* line 32: the anchor of one URL
Anchor(safe_url) ==
    <<"<a", " href=", "\"">> \o safe_url
        \o <<"\"", " rel=", "\"", "noopener", "\"", " target=", "\"", "_blank", "\"", ">">>
        \o safe_url \o <<"</a>">>

RECURSIVE AutolinkLoop(_, _)
\* the finditer loop of autolink_plain, from text[last:] on (last is 1-based)
AutolinkLoop(text, last) ==
    LET k == NextUrl(text, last) IN
    IF k = 0
    THEN html_escape(SubSeq(text, last, Len(text)), TRUE)
    ELSE LET e == UrlEnd(text, k)
             safe_url == html_escape(SubSeq(text, k, e), TRUE)
         IN  html_escape(SubSeq(text, last, k - 1), TRUE)
                \o Anchor(safe_url)
                \o AutolinkLoop(text, e + 1)

autolink_plain(text) ==
    IF Falsy(text) THEN <<>> ELSE AutolinkLoop(text.s, 1)

-----------------------------------------------------------------------------
(* DOM nodes, as BeautifulSoup holds them.  A text node has name "#text"   *)
(* and its characters in s; an element has a name, an ordered attribute    *)
(* list and children.  The value of a class attribute is the list of its   *)
(* class names; every other value is a string.                             *)

Text(s) == [name |-> "#text", attrs |-> <<>>, kids |-> <<>>, s |-> s]

El(name, attrs, kids) == [name |-> name, attrs |-> attrs, kids |-> kids, s |-> <<>>]

Attr(n, v) == [n |-> n, v |-> v]

IsText(n) == n.name = "#text"

HasAttr(n, a) == \E i \in 1..Len(n.attrs) : n.attrs[i].n = a

\* tag.get(a, default)
GetAttr(n, a, default) ==
    IF HasAttr(n, a)
    THEN n.attrs[CHOOSE i \in 1..Len(n.attrs) : n.attrs[i].n = a].v
    ELSE default

ElNames == {"a", "b", "i", "br", "img", "div", "p", "time"}

VoidNames == {"br", "img"}

AttrNames ==
    {"href", "src", "rel", "target", "class", "style", "onclick", "datetime", "data-href",
     "referrerpolicy"}

Quotes == {"\"", "'"}

OpenTok(name) == "<" \o name

CloseTok(name) == "</" \o name \o ">"

AttrTok(a) == " " \o a \o "="

OpenToks == {OpenTok(e) : e \in ElNames}

CloseToks == {CloseTok(e) : e \in ElNames}

AttrToks == {AttrTok(a) : a \in AttrNames}

NameOfOpen(t) == CHOOSE e \in ElNames : OpenTok(e) = t

NameOfClose(t) == CHOOSE e \in ElNames : CloseTok(e) = t

NameOfAttr(t) == CHOOSE a \in AttrNames : AttrTok(a) = t

-----------------------------------------------------------------------------
(* Serialization: Tag.decode and decode_contents with formatter "minimal". *)

\* EntitySubstitution.substitute_xml: the "minimal" formatter
EscMinChar(c) ==
    CASE c = "&" -> "&amp;"
      [] c = "<" -> "&lt;"
      [] c = ">" -> "&gt;"
      [] OTHER -> c

EscMin(s) == [i \in 1..Len(s) |-> EscMinChar(s[i])]

RECURSIVE JoinWith(_, _)
\* sep.join(parts), for a separator of one token
JoinWith(parts, sep) ==
    IF parts = <<>> THEN <<>>
    ELSE IF Len(parts) = 1 THEN Head(parts)
    ELSE Head(parts) \o <<sep>> \o JoinWith(Tail(parts), sep)

\* the string value of an attribute: a class list is joined with spaces
AttrString(a) ==
    IF a.n = "class" THEN JoinWith([i \in 1..Len(a.v) |-> <<a.v[i]>>], " ") ELSE a.v

\* EntitySubstitution.quoted_attribute_value
QuotedValue(v) ==
    IF Contains(v, "\"")
    THEN IF Contains(v, "'")
         THEN <<"\"">> \o [i \in 1..Len(v) |-> IF v[i] = "\"" THEN "&quot;" ELSE v[i]]
                \o <<"\"">>
         ELSE <<"'">> \o v \o <<"'">>
    ELSE <<"\"">> \o v \o <<"\"">>

DecodeAttr(a) == <<AttrTok(a.n)>> \o QuotedValue(EscMin(AttrString(a)))

RECURSIVE Decode(_)
\* Tag.decode(formatter="minimal"); a text node gives its escaped text
Decode(n) ==
    IF IsText(n) THEN EscMin(n.s)
    ELSE LET attrs == Concat([i \in 1..Len(n.attrs) |-> DecodeAttr(n.attrs[i])])
         IN  IF n.name \in VoidNames
             THEN <<OpenTok(n.name)>> \o attrs \o <<"/>">>
             ELSE <<OpenTok(n.name)>> \o attrs \o <<">">>
                    \o Concat([i \in 1..Len(n.kids) |-> Decode(n.kids[i])])
                    \o <<CloseTok(n.name)>>

\* Tag.decode_contents(formatter="minimal")
decode_contents(el) == Concat([i \in 1..Len(el.kids) |-> Decode(el.kids[i])])

\* str(x) of a member of Tag.contents: a Tag is decoded, a NavigableString
\* is a str subclass and gives its characters as they are
StrOf(x) == IF IsText(x) THEN x.s ELSE Decode(x)

RECURSIVE LStrip(_)
LStrip(s) == IF s # <<>> /\ Head(s) = " " THEN LStrip(Tail(s)) ELSE s

RECURSIVE RStrip(_)
RStrip(s) ==
    IF s # <<>> /\ s[Len(s)] = " " THEN RStrip(SubSeq(s, 1, Len(s) - 1)) ELSE s

\* str.strip()
Strip(s) == RStrip(LStrip(s))

-----------------------------------------------------------------------------
(* Parsing: BeautifulSoup(html, "lxml"). *)

Unescape(c) ==
    CASE c = "&amp;" -> "&"
      [] c = "&lt;" -> "<"
      [] c = "&gt;" -> ">"
      [] c = "&quot;" -> "\""
      [] c = "&#x27;" -> "'"
      [] OTHER -> c

UnescapeAll(s) == [i \in 1..Len(s) |-> Unescape(s[i])]

\* position of the first token equal to q at or after i; 0 if none
FirstAt(s, i, q) ==
    IF \E j \in i..Len(s) : s[j] = q
    THEN CHOOSE j \in i..Len(s) : s[j] = q /\ \A k \in i..(j - 1) : s[k] # q
    ELSE 0

\* the value of attribute a as the parser stores it
ParsedValue(a, raw) ==
    IF a = "class" THEN SelectSeq(UnescapeAll(raw), LAMBDA c : c # " ")
    ELSE UnescapeAll(raw)

RECURSIVE ParseAttrs(_, _)
\* the attributes of a start tag from position i on: the attribute list and
\* the position after the tag's end
ParseAttrs(toks, i) ==
    IF i > Len(toks) THEN [attrs |-> <<>>, next |-> i, void |-> FALSE]
    ELSE IF toks[i] = ">" THEN [attrs |-> <<>>, next |-> i + 1, void |-> FALSE]
    ELSE IF toks[i] = "/>" THEN [attrs |-> <<>>, next |-> i + 1, void |-> TRUE]
    ELSE IF /\ toks[i] \in AttrToks
            /\ i + 1 <= Len(toks)
            /\ toks[i + 1] \in Quotes
            /\ FirstAt(toks, i + 2, toks[i + 1]) > 0
         THEN LET c == FirstAt(toks, i + 2, toks[i + 1])
                  a == NameOfAttr(toks[i])
                  rest == ParseAttrs(toks, c + 1)
              IN  [rest EXCEPT !.attrs =
                      <<Attr(a, ParsedValue(a, SubSeq(toks, i + 2, c - 1)))>>
                        \o SelectSeq(rest.attrs, LAMBDA x : x.n # a)]
    ELSE ParseAttrs(toks, i + 1)

IsTagTok(t) == t \in OpenToks \/ t \in CloseToks

\* last position of the run of text tokens that starts at i
TextEnd(toks, i) ==
    CHOOSE e \in i..Len(toks) :
        /\ \A j \in i..e : ~IsTagTok(toks[j])
        /\ (e = Len(toks) \/ IsTagTok(toks[e + 1]))

\* a parse result with one more node in front
Prepend(node, rest) == [nodes |-> <<node>> \o rest.nodes, next |-> rest.next]

RECURSIVE ParseNodes(_, _, _)
RECURSIVE ParseElement(_, _, _, _)
RECURSIVE ParseSiblings(_, _, _, _, _)
RECURSIVE ParseText(_, _, _, _)

\* the nodes from position i on, inside the elements named in open (the
\* innermost last): the node list and the position after it
ParseNodes(toks, i, open) ==
    IF i > Len(toks) THEN [nodes |-> <<>>, next |-> i]
    ELSE IF toks[i] \in CloseToks
         THEN IF open # <<>> /\ open[Len(open)] = NameOfClose(toks[i])
              THEN [nodes |-> <<>>, next |-> i + 1]
              ELSE IF \E k \in 1..Len(open) : open[k] = NameOfClose(toks[i])
              THEN [nodes |-> <<>>, next |-> i]
              ELSE ParseNodes(toks, i + 1, open)
    ELSE IF toks[i] \in OpenToks
         THEN ParseElement(toks, open, NameOfOpen(toks[i]), ParseAttrs(toks, i + 1))
    ELSE ParseText(toks, i, open, TextEnd(toks, i))

\* an element named e whose start tag has been read as tag
ParseElement(toks, open, e, tag) ==
    ParseSiblings(toks, open, e, tag.attrs,
                  IF e \in VoidNames \/ tag.void
                  THEN [nodes |-> <<>>, next |-> tag.next]
                  ELSE ParseNodes(toks, tag.next, Append(open, e)))

\* an element whose children have been read as inner, and what follows it
ParseSiblings(toks, open, e, attrs, inner) ==
    Prepend(El(e, attrs, inner.nodes), ParseNodes(toks, inner.next, open))

\* the text at positions i..e, and what follows it
ParseText(toks, i, open, e) ==
    Prepend(Text(UnescapeAll(SubSeq(toks, i, e))), ParseNodes(toks, e + 1, open))

\* lxml puts a fragment that begins with text into a paragraph
WrapBody(nodes) ==
    IF nodes # <<>> /\ IsText(nodes[1]) THEN <<El("p", <<>>, nodes)>> ELSE nodes

\* the contents of soup.body
BodyContents(html) == WrapBody(ParseNodes(html, 1, <<>>).nodes)

-----------------------------------------------------------------------------
(* urljoin and absolutize_links. *)

\* the base get_html passes: "https://t.me/"
TelegramBase == <<"https:", "/", "/", "t.me", "/">>

RECURSIVE Split(_, _)
\* s.split(sep): the list of the (possibly empty) pieces between separators
Split(s, sep) ==
    LET c == FirstAt(s, 1, sep) IN
    IF c = 0 THEN <<s>>
    ELSE <<SubSeq(s, 1, c - 1)>> \o Split(SubSeq(s, c + 1, Len(s)), sep)

RECURSIVE ResolveSegments(_, _)
\* the loop of urljoin over the path segments
ResolveSegments(segments, resolved) ==
    IF segments = <<>> THEN resolved
    ELSE LET seg == Head(segments) IN
         IF seg = <<"..">>
         THEN ResolveSegments(Tail(segments),
                  IF resolved = <<>> THEN <<>> ELSE SubSeq(resolved, 1, Len(resolved) - 1))
         ELSE IF seg = <<".">> THEN ResolveSegments(Tail(segments), resolved)
         ELSE ResolveSegments(Tail(segments), Append(resolved, seg))

\* '/'.join(resolved_path) or '/', as urlunparse puts it after the host
RootedPath(joined) ==
    IF joined = <<>> THEN <<"/">>
    ELSE IF Head(joined) # "/" THEN <<"/">> \o joined
    ELSE joined

\* the resolved segments, with the empty segment urljoin appends when the
\* last segment is a dot segment
WithTail(segments, resolved) ==
    IF segments[Len(segments)] \in {<<".">>, <<"..">>} THEN Append(resolved, <<>>)
    ELSE resolved

ResolveSplit(segments) ==
    RootedPath(JoinWith(WithTail(segments, ResolveSegments(segments, <<>>)), "/"))

\* the path urljoin gives for an absolute path: dot segments resolved
ResolvePath(path) == ResolveSplit(Split(path, "/"))

\* urllib.parse.urljoin(base, url) for a base "scheme://host/" and a url that
\* begins with "/"
urljoin(base, url) ==
    LET origin == SubSeq(base, 1, 4) IN
    IF Len(url) >= 2 /\ url[2] = "/"
    THEN LET rest == SubSeq(url, 3, Len(url))
             c == FirstAt(rest, 1, "/")
             netloc == IF c = 0 THEN rest ELSE SubSeq(rest, 1, c - 1)
             path == IF c = 0 THEN <<>> ELSE SubSeq(rest, c, Len(rest))
         IN  IF netloc # <<>> THEN SubSeq(base, 1, 3) \o netloc \o path
             ELSE IF path = <<>> THEN base
             ELSE origin \o ResolvePath(path)
    ELSE origin \o ResolvePath(url)

\* the tokens a pattern that begins with href= or src= matches at: the
\* patterns are not anchored on the left
HrefToks == {" href=", " data-href="}

SrcToks == {" src="}

\* the pattern name="(/[^"]+)" (with quote q) matches at position i
RelMatchAt(html, i, names, q) ==
    /\ i + 3 <= Len(html)
    /\ html[i] \in names
    /\ html[i + 1] = q
    /\ html[i + 2] = "/"
    /\ FirstAt(html, i + 3, q) > i + 3

RECURSIVE ReSub(_, _, _, _, _)
\* re.sub of one pattern of absolutize_links, from position i on
ReSub(html, i, names, q, base) ==
    IF i > Len(html) THEN <<>>
    ELSE IF RelMatchAt(html, i, names, q)
         THEN LET c == FirstAt(html, i + 3, q) IN
              <<html[i], q>> \o urljoin(base, SubSeq(html, i + 2, c - 1)) \o <<q>>
                \o ReSub(html, c + 1, names, q, base)
    ELSE <<html[i]>> \o ReSub(html, i + 1, names, q, base)

absolutize_links(html, base) ==
    LET h1 == ReSub(html, 1, HrefToks, "\"", base)
        h2 == ReSub(h1, 1, HrefToks, "'", base)
        h3 == ReSub(h2, 1, SrcToks, "\"", base)
        h4 == ReSub(h3, 1, SrcToks, "'", base)
    IN  h4

-----------------------------------------------------------------------------
(* sanitize_keep_links. *)

\* the attributes sanitize_keep_links leaves on an anchor
AnchorAttrs(tag) ==
    LET href == GetAttr(tag, "href", <<>>) IN
    (IF href # <<>> THEN <<Attr("href", href)>> ELSE <<>>)
        \o <<Attr("rel", <<"noopener">>), Attr("target", <<"_blank">>)>>

RECURSIVE SanitizeNodes(_)
\* the loop over container.find_all(True): what it leaves of a node list
SanitizeNodes(nodes) ==
    IF nodes = <<>> THEN <<>>
    ELSE LET tag == Head(nodes)
             kids == SanitizeNodes(tag.kids)
         IN  (IF IsText(tag) THEN <<tag>>
              ELSE IF tag.name = "a" THEN <<El("a", AnchorAttrs(tag), kids)>>
              ELSE IF tag.name = "br" THEN <<[tag EXCEPT !.kids = kids]>>
              ELSE kids)
             \o SanitizeNodes(Tail(nodes))

\* "".join(str(x) for x in container.contents)
InnerOf(contents) == Concat([i \in 1..Len(contents) |-> StrOf(contents[i])])

\* the last line of sanitize_keep_links
Paragraph(inner) == IF inner # <<>> THEN <<"<p", ">">> \o inner \o <<"</p>">> ELSE <<>>

sanitize_keep_links(html) ==
    IF html = <<>> THEN <<>>
    ELSE Paragraph(InnerOf(SanitizeNodes(BodyContents(html))))

-----------------------------------------------------------------------------
(* CSS selection over a bubble.  A bubble div is an element that also      *)
(* carries parents: the (name, class list) of each of its own ancestors.   *)

Classes(n) == GetAttr(n, "class", <<>>)

HasClass(n, c) == Contains(Classes(n), c)

AncOf(n) == [name |-> n.name, cls |-> Classes(n)]

RECURSIVE WalkNodes(_, _)
\* the elements below a node list in document order, each with its chain of
\* ancestors (outermost first)
WalkNodes(nodes, anc) ==
    IF nodes = <<>> THEN <<>>
    ELSE LET n == Head(nodes) IN
         (IF IsText(n) THEN <<>>
          ELSE <<[node |-> n, anc |-> anc]>> \o WalkNodes(n.kids, Append(anc, AncOf(n))))
         \o WalkNodes(Tail(nodes), anc)

\* the descendants of a bubble div, in document order
Descendants(div) == WalkNodes(div.kids, Append(div.parents, AncOf(div)))

\* div.select_one(...): the first match, or an empty list for None
FirstOf(matches) == IF matches = <<>> THEN <<>> ELSE <<Head(matches)>>

\* a.tgme_widget_message_date[href]
IsDateAnchor(e) ==
    e.node.name = "a" /\ HasClass(e.node, "tgme_widget_message_date") /\ HasAttr(e.node, "href")

\* time.time[datetime]
IsTimeTag(e) ==
    e.node.name = "time" /\ HasClass(e.node, "time") /\ HasAttr(e.node, "datetime")

\* div.tgme_widget_message_text
IsMessageText(e) == e.node.name = "div" /\ HasClass(e.node, "tgme_widget_message_text")

\* *[style]
IsStyled(e) == HasAttr(e.node, "style")

\* img[src]
IsImgSrc(e) == e.node.name = "img" /\ HasAttr(e.node, "src")

\* a.tgme_widget_message_link_preview img[src]
IsPreviewImg(e) ==
    /\ IsImgSrc(e)
    /\ \E k \in 1..Len(e.anc) :
          e.anc[k].name = "a" /\ Contains(e.anc[k].cls, "tgme_widget_message_link_preview")

-----------------------------------------------------------------------------
(* get_photo_assets. *)

\* the tokens of the model that contain the needle as a substring
TokensWith(needle) ==
    CASE needle = "tgme_widget_message_reactions" ->
            {"tgme_widget_message_reactions", "tgme_widget_message_reactions_small"}
      [] needle = "tgme_widget_message_reactions_small" ->
            {"tgme_widget_message_reactions_small"}
      [] needle = "emoji" ->
            {"emoji", "tgme_widget_emoji", "emoji_image", "/emoji/", "emoji-static",
             "emoji-animated"}
      [] needle = "sticker" -> {"sticker", "/stickers/"}
      [] OTHER -> {needle}

\* needle in s, for a needle that lies inside one token
HasSub(s, needle) == \E i \in 1..Len(s) : s[i] \in TokensWith(needle)

BgProps == {"background-image:", "BACKGROUND-IMAGE:"}

UrlFns == {"url(", "URL("}

BgStop == {"'", "\"", ")"}

\* the position after the white space that starts at j
RECURSIVE SkipSpace(_, _)
SkipSpace(s, j) == IF j <= Len(s) /\ s[j] = " " THEN SkipSpace(s, j + 1) ELSE j

\* BG_URL_RE matched at position k: the group u, or an empty list if the
\* pattern does not match there
BgGroupAt(style, k) ==
    IF k > Len(style) \/ style[k] \notin BgProps THEN <<>>
    ELSE LET f == SkipSpace(style, k + 1) IN
         IF f > Len(style) \/ style[f] \notin UrlFns THEN <<>>
         ELSE LET a == IF f + 1 <= Len(style) /\ style[f + 1] \in Quotes THEN f + 2 ELSE f + 1
                  stops == {j \in a..Len(style) : style[j] \in BgStop}
                  b == IF stops = {} THEN Len(style) + 1
                       ELSE CHOOSE j \in stops : \A j2 \in stops : j <= j2
              IN  IF b = a \/ b > Len(style) THEN <<>>
                  ELSE IF style[b] = ")" THEN SubSeq(style, a, b - 1)
                  ELSE IF b + 1 <= Len(style) /\ style[b + 1] = ")" THEN SubSeq(style, a, b - 1)
                  ELSE <<>>

\* the smallest member of a non-empty set of positions
MinOf(S) == CHOOSE k \in S : \A k2 \in S : k <= k2

\* BG_URL_RE.search(style): the group u of the leftmost match, or an empty
\* list if there is no match
BgSearch(style) ==
    IF \A k \in 1..Len(style) : BgGroupAt(style, k) = <<>> THEN <<>>
    ELSE BgGroupAt(style, MinOf({k \in 1..Len(style) : BgGroupAt(style, k) # <<>>}))

\* is_reaction_or_emoji(node), for a node with its ancestor chain
is_reaction_or_emoji(e) ==
    \/ \E k \in 1..Len(e.anc) :
          \/ HasSub(e.anc[k].cls, "tgme_widget_message_reactions")
          \/ HasSub(e.anc[k].cls, "tgme_widget_message_reactions_small")
    \/ \E x \in {"emoji", "tgme_widget_emoji", "emoji_image"} : HasSub(Classes(e.node), x)
    \/ \E part \in {"/emoji/", "/stickers/", "emoji-static", "emoji-animated"} :
          HasSub(GetAttr(e.node, "src", <<>>), part)
    \/ HasSub(GetAttr(e.node, "style", <<>>), "emoji")
    \/ HasSub(GetAttr(e.node, "style", <<>>), "sticker")

\* group u of BG_URL_RE.search(el.get("style", ""))
BgOf(e) == BgSearch(GetAttr(e.node, "style", <<>>))

\* the elements of the first loop that contribute a photo
BgKept(e) == BgOf(e) # <<>> /\ ~is_reaction_or_emoji(e)

MapBg(kept) == [i \in 1..Len(kept) |-> BgOf(kept[i])]

\* the first loop: background images of the styled elements
BgPhotos(div) == MapBg(SelectSeq(SelectSeq(Descendants(div), IsStyled), BgKept))

PreviewOf(img) ==
    IF img # <<>> /\ ~is_reaction_or_emoji(img[1])
    THEN <<GetAttr(img[1].node, "src", <<>>)>>
    ELSE <<>>

\* the link-preview image
PreviewPhotos(div) == PreviewOf(FirstOf(SelectSeq(Descendants(div), IsPreviewImg)))

ImgKept(e) == IsImgSrc(e) /\ ~is_reaction_or_emoji(e)

MapSrc(kept) == [i \in 1..Len(kept) |-> GetAttr(kept[i].node, "src", <<>>)]

\* the second loop: the img elements
ImgPhotos(div) == MapSrc(SelectSeq(Descendants(div), ImgKept))

RECURSIVE Uniq(_, _)
\* the last loop of get_photo_assets: photos without the members of seen and
\* without later duplicates
Uniq(photos, seen) ==
    IF photos = <<>> THEN <<>>
    ELSE IF Head(photos) \in seen THEN Uniq(Tail(photos), seen)
    ELSE <<Head(photos)>> \o Uniq(Tail(photos), seen \cup {Head(photos)})

get_photo_assets_no_dedup(div) == BgPhotos(div) \o PreviewPhotos(div) \o ImgPhotos(div)

get_photo_assets(div) ==
    Uniq(BgPhotos(div) \o PreviewPhotos(div) \o ImgPhotos(div), {})

-----------------------------------------------------------------------------
(* build_item and the helpers it calls. *)

RECURSIVE Replace(_, _, _)
\* s.replace(old, new), for an old of one token
Replace(s, old, new) ==
    IF s = <<>> THEN <<>>
    ELSE (IF Head(s) = old THEN new ELSE <<Head(s)>>) \o Replace(Tail(s), old, new)

LinkOf(a) ==
    IF a = <<>> THEN None
    ELSE Str(Replace(GetAttr(a[1].node, "href", <<>>), "://t.me/", <<"://t.me/", "s/">>))

\* get_link(div): None, or the href with "://t.me/" replaced by "://t.me/s/"
get_link(div) == LinkOf(FirstOf(SelectSeq(Descendants(div), IsDateAnchor)))

HtmlOf(el) ==
    IF el = <<>> THEN <<>>
    ELSE absolutize_links(Strip(decode_contents(el[1].node)), TelegramBase)

\* get_html(div)
get_html(div) == HtmlOf(FirstOf(SelectSeq(Descendants(div), IsMessageText)))

RECURSIVE Strings(_)
\* the stripped, non-empty strings below a node list, in document order
Strings(nodes) ==
    IF nodes = <<>> THEN <<>>
    ELSE LET n == Head(nodes) IN
         (IF IsText(n)
          THEN (IF Strip(n.s) = <<>> THEN <<>> ELSE <<Strip(n.s)>>)
          ELSE Strings(n.kids))
         \o Strings(Tail(nodes))

PlainOf(el) == IF el = <<>> THEN <<>> ELSE JoinWith(Strings(el[1].node.kids), " ")

\* get_plain_text(div): el.get_text(" ", strip=True)
get_plain_text(div) == PlainOf(FirstOf(SelectSeq(Descendants(div), IsMessageText)))

\* escape_attr(s)
escape_attr(s) == Replace(s, "\"", <<"&quot;">>)

\* str.lower() on the file extensions of the model
Lower(t) ==
    CASE t = ".JPG" -> ".jpg"
      [] t = ".PNG" -> ".png"
      [] OTHER -> t

\* guess_mime(url)
guess_mime(url) ==
    LET last == IF url = <<>> THEN "" ELSE Lower(url[Len(url)]) IN
    IF last \in {".jpg", ".jpeg"} THEN "image/jpeg"
    ELSE IF last = ".png" THEN "image/png"
    ELSE IF last = ".webp" THEN "image/webp"
    ELSE IF last = ".gif" THEN "image/gif"
    ELSE "application/octet-stream"

\* the strings datetime.fromisoformat accepts; it raises ValueError on any
\* other
IsoStrings == {<<"2024-01-02T03:04:05+00:00">>}

\* the <p><img .../></p> of one photo
MediaTag(u) ==
    <<"<p", ">", "<img", " src=", "\"">> \o escape_attr(u)
        \o <<"\"", " referrerpolicy=", "\"", "no-referrer", "\"", "/>", "</p>">>

\* ContentEncoded(html)
ContentEncoded(html) == [_html |-> <<"<![CDATA[">> \o html \o <<"]]>">>]

TimeOf(time_tag) ==
    IF time_tag = <<>> THEN <<>> ELSE <<GetAttr(time_tag[1].node, "datetime", <<>>)>>

\* the value of time_tag["datetime"] for the bubble's time tag, as a list of
\* at most one string
TimeValue(div) == TimeOf(FirstOf(SelectSeq(Descendants(div), IsTimeTag)))

\* line 119
FirstPara(sanitized, plain) ==
    IF sanitized # <<>> THEN sanitized
    ELSE <<"<p", ">">> \o autolink_plain(Str(plain)) \o <<"</p>">>

\* line 122
MediaHtml(photos) == Concat([i \in 1..Len(photos) |-> MediaTag(photos[i])])

FullHtml_no_fallback(raw_html, media_html, link) == raw_html \o media_html

\* line 125
FullHtml(raw_html, media_html, link) ==
    IF raw_html # <<>> \/ media_html # <<>> THEN raw_html \o media_html ELSE link

\* line 127
EnclosureOf(photos) ==
    IF photos # <<>>
    THEN <<[url |-> photos[1], length |-> 0, type |-> guess_mime(photos[1])]>>
    ELSE <<>>

\* lines 124-138
ItemFrom(channel_name, link, pub, raw_html, first_para_html, photos, media_html) ==
    [title |-> <<"New post in channel @">> \o channel_name,
     link |-> link,
     description |-> first_para_html \o media_html,
     pubDate |-> pub,
     guid |-> [guid |-> link, isPermaLink |-> TRUE],
     enclosure |-> EnclosureOf(photos),
     extensions |-> <<ContentEncoded(FullHtml(raw_html, media_html, link))>>]

\* lines 119-138, for the rich content, the plain text and the photos
ItemWith(channel_name, link, pub, raw_html, plain, photos) ==
    ItemFrom(channel_name, link, pub, raw_html,
             FirstPara(sanitize_keep_links(raw_html), plain), photos, MediaHtml(photos))

\* the Item build_item returns for a bubble with a link and a publish time
ItemOf(div, channel_name, link, pub) ==
    ItemWith(channel_name, link, pub, get_html(div), get_plain_text(div),
             get_photo_assets(div))

\* line 116: the publish time, or the ValueError of fromisoformat
PubOf(tv) ==
    IF tv = <<>> THEN [exc |-> <<>>, pub |-> [src |-> "now", at |-> <<>>]]
    ELSE IF tv[1] \in IsoStrings THEN [exc |-> <<>>, pub |-> [src |-> "tag", at |-> tv[1]]]
    ELSE [exc |-> <<"Invalid isoformat string">>, pub |-> [src |-> "tag", at |-> tv[1]]]

\* build_item after line 113
BuildWith(div, channel_name, link, p) ==
    IF p.exc # <<>> THEN [exc |-> p.exc, ret |-> <<>>]
    ELSE [exc |-> <<>>, ret |-> <<ItemOf(div, channel_name, link, p.pub)>>]

BuildLinked_keep_empty(div, channel_name, link) ==
    IF link.tag = "None" THEN [exc |-> <<>>, ret |-> <<>>]
    ELSE BuildWith(div, channel_name, link.s, PubOf(TimeValue(div)))

\* build_item for the value get_link returned
BuildLinked(div, channel_name, link) ==
    IF Falsy(link) THEN [exc |-> <<>>, ret |-> <<>>]
    ELSE BuildWith(div, channel_name, link.s, PubOf(TimeValue(div)))

\* build_item(div, channel_name): exc is the message of the exception it
\* raises (empty if it returns), ret the Item it returns (empty for None)
build_item(div, channel_name) == BuildLinked(div, channel_name, get_link(div))

-----------------------------------------------------------------------------
(* The inputs the model draws from. *)

\* os.environ["API_KEY"]
API_KEY == Str(<<"secret">>)

\* a dict, or None: the pairs (key, value) of the dict
NoneDict == [isNone |-> TRUE, dict |-> {}]

Dict(d) == [isNone |-> FALSE, dict |-> d]

RECURSIVE SeqsUpTo(_, _)
\* all sequences over S of length at most n
SeqsUpTo(S, n) ==
    IF n = 0 THEN {<<>>}
    ELSE LET shorter == SeqsUpTo(S, n - 1)
         IN  shorter \cup {Append(t, c) : t \in shorter, c \in S}

TextAlphabet == {"http://", "https://", "x", "&", "<", ">", "\"", "'", " "}

\* the arguments of autolink_plain
Texts == {None} \cup {Str(t) : t \in SeqsUpTo(TextAlphabet, MaxTextLen)}

Style(toks) == Attr("style", toks)

Bg(q, url) == <<"background-image:", "url(">> \o q \o url \o q \o <<")">>

Photo1 == <<"https://cdn/", "photo1", ".jpg">>

Photo2 == <<"https://cdn/", "photo2", ".PNG">>

Photo3 == <<"https://cdn/", "a\"b", "\"", ".gif">>

EmojiUrl == <<"//telegram.org/img", "/emoji/", "40", ".png">>

StickerUrl == <<"https://cdn", "/stickers/", "s", ".webp">>

PlainPng == <<"https://cdn/", "e", ".png">>

\* the image-bearing nodes of a bubble
MediaNodes ==
    { El("a", <<Attr("class", <<"tgme_widget_message_photo_wrap">>),
                Style(Bg(<<"'">>, Photo1))>>, <<>>),
      El("i", <<Attr("class", <<"emoji">>), Style(Bg(<<"'">>, EmojiUrl))>>,
         <<El("b", <<>>, <<Text(<<"x">>)>>)>>),
      El("img", <<Attr("src", Photo1)>>, <<>>),
      El("img", <<Attr("src", Photo2)>>, <<>>),
      El("img", <<Attr("class", <<"emoji">>), Attr("src", PlainPng)>>, <<>>),
      El("img", <<Attr("src", StickerUrl)>>, <<>>),
      El("a", <<Attr("class", <<"tgme_widget_message_link_preview">>)>>,
         <<El("img", <<Attr("src", Photo3)>>, <<>>)>>),
      El("a", <<Attr("class", <<"tgme_widget_message_link_preview">>)>>,
         <<El("img", <<Attr("class", <<"tgme_widget_emoji">>), Attr("src", Photo2)>>, <<>>)>>),
      El("div", <<Attr("class", <<"tgme_widget_message_reactions_small">>)>>,
         <<El("img", <<Attr("src", Photo2)>>, <<>>),
           El("i", <<Style(Bg(<<>>, Photo1))>>, <<>>)>>),
      El("div", <<Style(<<"color:red">>)>>, <<>>),
      El("a", <<Style(<<"BACKGROUND-IMAGE:", " ", "URL(">> \o Photo2
                        \o <<")", ";", "sticker">>)>>, <<>>),
      El("img", <<Attr("src", Photo1), Style(Bg(<<"\"">>, Photo2))>>, <<>>),
      El("i", <<Style(Bg(<<>>, Photo2))>>, <<El("img", <<Attr("src", Photo1)>>, <<>>)>>) }

Bubble(parents, kids) ==
    [name |-> "div",
     attrs |-> <<Attr("class", <<"tgme_widget_message_bubble">>)>>,
     kids |-> kids,
     s |-> <<>>,
     parents |-> parents]

\* the ancestors of a bubble on the channel page
PageParents == <<[name |-> "div", cls |-> <<"tgme_widget_message">>]>>

\* a bubble that sits inside a reactions bar
ReactionParents == <<[name |-> "div", cls |-> <<"tgme_widget_message_reactions">>]>>

\* the arguments of get_photo_assets
PhotoBubbles ==
    {Bubble(ps, kids) : ps \in {PageParents, ReactionParents},
                        kids \in SeqsUpTo(MediaNodes, MaxNodes)}

\* the nodes of a message text
TextNodes ==
    { Text(<<"Hello", " ">>),
      Text(<<"<", "&", " ", "http://", "x">>),
      Text(<<" ">>),
      El("a", <<Attr("href", <<"/", "x">>)>>, <<Text(<<"world">>)>>),
      El("a", <<Attr("href", <<"/">>), Attr("class", <<"c">>),
                Attr("onclick", <<"x", "\"">>)>>, <<Text(<<"home">>)>>),
      El("a", <<Attr("href", <<>>)>>, <<El("b", <<>>, <<Text(<<"bold">>)>>)>>),
      El("br", <<>>, <<>>),
      El("br", <<Attr("onclick", <<"x">>)>>, <<>>),
      El("b", <<Attr("style", <<"color:red">>)>>,
         <<El("i", <<>>, <<Text(<<"x">>)>>), El("br", <<>>, <<>>)>>),
      El("img", <<Attr("src", <<"/", "i", ".png">>)>>, <<>>),
      El("i", <<Attr("class", <<"emoji">>), Style(Bg(<<"'">>, EmojiUrl))>>,
         <<El("b", <<>>, <<Text(<<"x">>)>>)>>) }

MessageText(kids) ==
    El("div", <<Attr("class", <<"tgme_widget_message_text">>)>>, kids)

\* the arguments of sanitize_keep_links: what get_html gives for a message
\* text
Fragments ==
    {absolutize_links(Strip(decode_contents(MessageText(kids))), TelegramBase) :
        kids \in SeqsUpTo(TextNodes, MaxNodes)}

ValueAlphabet == {"/", "x", "..", "https:"}

\* the arguments of absolutize_links: one start tag with one quoted attribute
AttrFragments ==
    {<<"<a", a, q>> \o v \o <<q, ">">> :
        a \in {" href=", " src=", " class="},
        q \in Quotes,
        v \in SeqsUpTo(ValueAlphabet, MaxValueLen)}

Permalink == <<"https", "://t.me/", "chan/42">>

DateAnchor(attrs) ==
    El("a", <<Attr("class", <<"tgme_widget_message_date">>)>> \o attrs, <<>>)

\* what a bubble holds for its permalink
DateChoices ==
    { <<>>,
      <<DateAnchor(<<>>)>>,
      <<DateAnchor(<<Attr("href", <<>>)>>)>>,
      <<DateAnchor(<<Attr("href", Permalink)>>)>>,
      <<DateAnchor(<<Attr("href", <<>>)>>), DateAnchor(<<Attr("href", Permalink)>>)>>,
      <<El("a", <<Attr("href", Permalink)>>, <<>>)>> }

TimeTag(cls, value) ==
    El("time", <<Attr("class", cls), Attr("datetime", value)>>, <<>>)

\* what a bubble holds for its publish time
TimeChoices ==
    { <<>>,
      <<TimeTag(<<"time">>, <<"2024-01-02T03:04:05+00:00">>)>>,
      <<TimeTag(<<"time">>, <<"yesterday">>)>>,
      <<TimeTag(<<"time">>, <<>>)>>,
      <<TimeTag(<<"datetime">>, <<"yesterday">>)>> }

\* what a bubble holds for its message text
TextChoices ==
    { <<>>,
      <<MessageText(<<>>)>>,
      <<MessageText(<<Text(<<" ">>)>>)>>,
      <<MessageText(<<Text(<<"Hello", " ">>),
                      El("a", <<Attr("href", <<"/", "x">>)>>, <<Text(<<"world">>)>>)>>)>>,
      <<MessageText(<<Text(<<"<", "&", " ", "http://", "x">>)>>)>>,
      <<MessageText(<<El("br", <<Attr("onclick", <<"x">>)>>, <<>>)>>)>>,
      <<MessageText(<<El("img", <<Attr("src", <<"/", "i", ".png">>)>>, <<>>)>>)>>,
      <<MessageText(<<El("i", <<Attr("class", <<"emoji">>), Style(Bg(<<"'">>, EmojiUrl))>>,
                         <<El("b", <<>>, <<Text(<<"x">>)>>)>>)>>)>> }

\* what a bubble holds for its media
MediaChoices == SeqsUpTo(MediaNodes, MaxMedia)

\* the arguments of build_item
ItemBubbles ==
    {Bubble(PageParents, d \o t \o x \o m) :
        d \in DateChoices, t \in TimeChoices, x \in TextChoices, m \in MediaChoices}

ChannelName == <<"chan">>

\* the bubbles of the pages the handler fetches
PageBubbles ==
    { Bubble(PageParents, <<>>),
      Bubble(PageParents, <<DateAnchor(<<Attr("href", <<>>)>>),
                            TimeTag(<<"time">>, <<"yesterday">>)>>),
      Bubble(PageParents, <<DateAnchor(<<Attr("href", Permalink)>>)>>),
      Bubble(PageParents,
             <<DateAnchor(<<Attr("href", <<"https", "://t.me/", "chan/43">>)>>),
               TimeTag(<<"time">>, <<"2024-01-02T03:04:05+00:00">>),
               MessageText(<<Text(<<"Hello">>)>>),
               El("img", <<Attr("src", Photo1)>>, <<>>)>>),
      Bubble(PageParents,
             <<DateAnchor(<<Attr("href", <<"https", "://t.me/", "chan/44">>)>>),
               TimeTag(<<"time">>, <<"yesterday">>)>>) }

\* the pages requests.get returns with status 200
Docs ==
    {[title |-> t, og |-> d, bubbles |-> bs] :
        t \in {<<>>, << <<>> >>, << <<" ", "News", " ">> >>},
        d \in {<<>>, << <<"About", " ">> >>},
        bs \in SeqsUpTo(PageBubbles, MaxBubbles)}

\* the status codes requests.get returns
Statuses == {200, 404, 500}

KeyDicts ==
    { NoneDict, Dict({}), Dict({<<"other", <<"1">>>>}), Dict({<<"key", <<"wrong">>>>}),
      Dict({<<"key", <<"secret">>>>}), Dict({<<"key", <<"secret">>>>, <<"other", <<"1">>>>}) }

PathDicts == {NoneDict, Dict({}), Dict({<<"channel_name", ChannelName>>})}

\* the events lambda_handler is invoked with
Events == {[queryStringParameters |-> q, pathParameters |-> p] : q \in KeyDicts, p \in PathDicts}

-----------------------------------------------------------------------------
(* lambda_handler, get_rss_feed and get_doc. *)

\* d.get(k)
DictGet(d, k) ==
    IF \E kv \in d.dict : kv[1] = k
    THEN Str((CHOOSE kv \in d.dict : kv[1] = k)[2])
    ELSE None

Unauthorized_only_missing(ev) ==
    \/ ev.queryStringParameters.isNone
    \/ ev.queryStringParameters.dict = {}

\* the test of line 57 that sends a request away with 401
Unauthorized(ev) ==
    \/ ev.queryStringParameters.isNone
    \/ ev.queryStringParameters.dict = {}
    \/ DictGet(ev.queryStringParameters, "key") # API_KEY

\* the exception event["pathParameters"]["channel_name"] raises, if any
ChannelError(ev) ==
    IF ev.pathParameters.isNone THEN <<"'NoneType' object is not subscriptable">>
    ELSE IF DictGet(ev.pathParameters, "channel_name") = None THEN <<"'channel_name'">>
    ELSE <<>>

ChannelOf(ev) == DictGet(ev.pathParameters, "channel_name").s

NoResponse == [statusCode |-> 0, body |-> <<>>, headers |-> {}]

NoDoc == [title |-> <<>>, og |-> <<>>, bubbles |-> <<>>]

NoFetch == [status |-> 0, doc |-> NoDoc]

NoEvent == [queryStringParameters |-> NoneDict, pathParameters |-> NoneDict]

\* the channel title get_rss_feed computes (line 80)
TitleOf(doc, channel_name) ==
    IF doc.title # <<>>
    THEN Strip(IF doc.title[1] # <<>> THEN doc.title[1] ELSE channel_name)
    ELSE channel_name

\* the channel description get_rss_feed computes (lines 81-82)
DescriptionOf(doc, channel_name) ==
    IF doc.og # <<>> THEN Strip(doc.og[1])
    ELSE <<"Posts from ">> \o TitleOf(doc, channel_name)

\* one <item> of Feed.rss()
RssItem(it) ==
    <<"<item>", "<title>">> \o it.title \o <<"<link>">> \o it.link
        \o <<"<description>">> \o html_escape(it.description, FALSE)
        \o <<"<content:encoded>">> \o it.extensions[1]._html \o <<"</item>">>

\* Feed(title, link, description, lastBuildDate, items).rss()
Rss(title, link, description, its) ==
    <<"<rss>", "<title>">> \o title \o <<"<link>">> \o link
        \o <<"<description>">> \o description
        \o Concat([i \in 1..Len(its) |-> RssItem(its[i])]) \o <<"</rss>">>

HelperIdle == fn = "none" /\ arg = <<>> /\ res = <<>>

helperVars == <<fn, arg, res>>

\* lines 57-58: the API key check
Authorize ==
    /\ pc = "start"
    /\ IF Unauthorized(event)
       THEN /\ response' = [statusCode |-> 401, body |-> <<"Unauthorized">>, headers |-> {}]
            /\ pc' = "done"
       ELSE /\ pc' = "channel"
            /\ UNCHANGED response
    /\ UNCHANGED <<event, fetches, coreCalls, fetched, idx, items, helperVars>>

\* lines 61-62 and 71-72: the channel name is read and get_rss_feed called
ReadChannel ==
    /\ pc = "channel"
    /\ IF ChannelError(event) # <<>>
       THEN /\ response' = [statusCode |-> 400, body |-> ChannelError(event), headers |-> {}]
            /\ pc' = "done"
            /\ UNCHANGED coreCalls
       ELSE /\ pc' = "fetch"
            /\ coreCalls' = coreCalls + 1
            /\ UNCHANGED response
    /\ UNCHANGED <<event, fetches, fetched, idx, items, helperVars>>

GetDoc_ignore_status ==
    /\ pc = "fetch"
    /\ fetches' = fetches + 1
    /\ \/ /\ fetched' = NoFetch
          /\ response' = [statusCode |-> 400, body |-> <<"Read timed out">>, headers |-> {}]
          /\ pc' = "done"
       \/ \E status \in Statuses, doc \in Docs :
             /\ fetched' = [status |-> status, doc |-> doc]
             /\ pc' = "loop"
             /\ UNCHANGED response
    /\ UNCHANGED <<event, coreCalls, idx, items, helperVars>>

\* lines 78 and 100-106: get_doc, whose requests.get raises (a timeout, a
\* connection error) or returns a response with a status code
GetDoc ==
    /\ pc = "fetch"
    /\ fetches' = fetches + 1
    /\ \/ /\ fetched' = NoFetch
          /\ response' = [statusCode |-> 400, body |-> <<"Read timed out">>, headers |-> {}]
          /\ pc' = "done"
       \/ \E status \in Statuses \ {200} :
             /\ fetched' = [status |-> status, doc |-> NoDoc]
             /\ response' = [statusCode |-> 400,
                             body |-> <<"Telegram channel not found">>,
                             headers |-> {}]
             /\ pc' = "done"
       \/ \E doc \in Docs :
             /\ fetched' = [status |-> 200, doc |-> doc]
             /\ pc' = "loop"
             /\ UNCHANGED response
    /\ UNCHANGED <<event, coreCalls, idx, items, helperVars>>

\* lines 85-88 and 71-72: one turn of the loop over the bubbles
ProcessBubble ==
    /\ pc = "loop"
    /\ idx < Len(fetched.doc.bubbles)
    /\ \E itm \in {build_item(fetched.doc.bubbles[idx + 1], ChannelOf(event))} :
       IF itm.exc # <<>>
       THEN /\ response' = [statusCode |-> 400, body |-> itm.exc, headers |-> {}]
            /\ pc' = "done"
            /\ UNCHANGED <<idx, items>>
       ELSE /\ items' = items \o itm.ret
            /\ idx' = idx + 1
            /\ UNCHANGED <<pc, response>>
    /\ UNCHANGED <<event, fetches, coreCalls, fetched, helperVars>>

\* lines 80-82, 90-97 and 63-70: the feed is assembled and returned
Assemble ==
    /\ pc = "loop"
    /\ idx = Len(fetched.doc.bubbles)
    /\ LET channel_name == ChannelOf(event)
           url == <<"https://t.me/s/">> \o channel_name
       IN  response' =
               [statusCode |-> 200,
                body |-> Rss(TitleOf(fetched.doc, channel_name), url,
                             DescriptionOf(fetched.doc, channel_name), items),
                headers |-> {<<"Content-Type", "application/rss+xml; charset=UTF-8">>,
                             <<"Cache-Control", "max-age=60, public">>}]
    /\ pc' = "done"
    /\ UNCHANGED <<event, fetches, coreCalls, fetched, idx, items, helperVars>>

Init ==
    /\ pc = "start"
    /\ event \in Events
    /\ response = NoResponse
    /\ fetches = 0
    /\ coreCalls = 0
    /\ fetched = NoFetch
    /\ idx = 0
    /\ items = <<>>
    /\ HelperIdle

Next == Authorize \/ ReadChannel \/ GetDoc \/ ProcessBubble \/ Assemble

Spec == Init /\ [][Next]_vars

-----------------------------------------------------------------------------
(* The helpers on their own: a helper is applied once to an argument drawn *)
(* from a bounded set.                                                     *)

HandlerIdle ==
    /\ pc = "idle"
    /\ event = NoEvent
    /\ response = NoResponse
    /\ fetches = 0
    /\ coreCalls = 0
    /\ fetched = NoFetch
    /\ idx = 0
    /\ items = <<>>

InitAutolink == HandlerIdle /\ fn = "none" /\ arg \in Texts /\ res = <<>>

ApplyAutolink ==
    /\ fn = "none"
    /\ fn' = "autolink_plain"
    /\ res' = autolink_plain(arg)
    /\ UNCHANGED <<arg, handlerVars>>

NextAutolink == ApplyAutolink

SpecAutolink == InitAutolink /\ [][NextAutolink]_vars

InitSanitize == HandlerIdle /\ fn = "none" /\ arg \in Fragments /\ res = <<>>

ApplySanitize ==
    /\ fn = "none"
    /\ fn' = "sanitize_keep_links"
    /\ res' = sanitize_keep_links(arg)
    /\ UNCHANGED <<arg, handlerVars>>

NextSanitize == ApplySanitize

SpecSanitize == InitSanitize /\ [][NextSanitize]_vars

InitAbsolutize == HandlerIdle /\ fn = "none" /\ arg \in AttrFragments /\ res = <<>>

ApplyAbsolutize ==
    /\ fn = "none"
    /\ fn' = "absolutize_links"
    /\ res' = absolutize_links(arg, TelegramBase)
    /\ UNCHANGED <<arg, handlerVars>>

NextAbsolutize == ApplyAbsolutize

SpecAbsolutize == InitAbsolutize /\ [][NextAbsolutize]_vars

InitPhotos == HandlerIdle /\ fn = "none" /\ arg \in PhotoBubbles /\ res = <<>>

ApplyPhotos ==
    /\ fn = "none"
    /\ fn' = "get_photo_assets"
    /\ res' = get_photo_assets(arg)
    /\ UNCHANGED <<arg, handlerVars>>

NextPhotos == ApplyPhotos

SpecPhotos == InitPhotos /\ [][NextPhotos]_vars

InitItem == HandlerIdle /\ fn = "none" /\ arg \in ItemBubbles /\ res = <<>>

ApplyItem ==
    /\ fn = "none"
    /\ fn' = "build_item"
    /\ res' = build_item(arg, ChannelName)
    /\ UNCHANGED <<arg, handlerVars>>

NextItem == ApplyItem

SpecItem == InitItem /\ [][NextItem]_vars

-----------------------------------------------------------------------------
(* The claims. *)

\* the API key of a request is missing or is not the configured one
KeyMissingOrWrong(ev) ==
    \/ ev.queryStringParameters.isNone
    \/ \A kv \in ev.queryStringParameters.dict : kv[1] # "key"
    \/ \E kv \in ev.queryStringParameters.dict : kv[1] = "key" /\ kv[2] # <<"secret">>

\* the request names a channel in its path parameters
NamesChannel(ev) ==
    /\ ~ev.pathParameters.isNone
    /\ \E kv \in ev.pathParameters.dict : kv[1] = "channel_name"

\* C1: a request whose API key is missing or wrong gets status 401, and
\* neither get_rss_feed nor an outbound fetch happens for it.
C1_UnauthorizedGets401 ==
    KeyMissingOrWrong(event) =>
        /\ pc \in {"start", "done"}
        /\ coreCalls = 0
        /\ fetches = 0
        /\ (pc = "done" => response.statusCode = 401)

\* a request with a wrong key has been answered
C1_Witness ==
    /\ pc = "done"
    /\ \E kv \in event.queryStringParameters.dict : kv = <<"key", <<"wrong">>>>
    /\ NamesChannel(event)
    /\ response.statusCode = 401

\* what C2 says of the fetch of a request
OneFetchNoRetry ==
    /\ fetches <= 1
    /\ (pc = "done" => fetches = 1)
    /\ (fetched.status \notin {0, 200} =>
            /\ pc = "done"
            /\ idx = 0
            /\ items = <<>>
            /\ response.statusCode = 400
            /\ response.body = <<"Telegram channel not found">>)

\* C2 as stated: every authorized request makes exactly one outbound fetch,
\* and a status other than 200 ends it, without a retry and without any
\* bubble processed, with status 400 and the fixed message.
C2_Original == ~KeyMissingOrWrong(event) => OneFetchNoRetry

\* C2 as amended: the same, for the authorized requests that name a channel.
C2_OneFetchWhenChannelNamed ==
    (~KeyMissingOrWrong(event) /\ NamesChannel(event)) => OneFetchNoRetry

\* an authorized request whose fetch returned 404 has been answered
C2_Witness ==
    /\ pc = "done"
    /\ ~KeyMissingOrWrong(event)
    /\ fetched.status = 404
    /\ fetches = 1
    /\ response.statusCode = 400

\* the first permalink anchor of a bubble, as a list of at most one element
PermalinkAnchors(div) ==
    FirstOf(SelectSeq(Descendants(div),
                      LAMBDA e : /\ e.node.name = "a"
                                 /\ Contains(GetAttr(e.node, "class", <<>>),
                                             "tgme_widget_message_date")
                                 /\ \E i \in 1..Len(e.node.attrs) : e.node.attrs[i].n = "href"))

\* a non-empty permalink href can be extracted from the bubble
HasPermalink(div) ==
    /\ PermalinkAnchors(div) # <<>>
    /\ GetAttr(PermalinkAnchors(div)[1].node, "href", <<>>) # <<>>

\* the bubble lacks nothing build_item needs
WellFormed(div) ==
    /\ HasPermalink(div)
    /\ TimeValue(div) # <<>>
    /\ TimeValue(div)[1] \in IsoStrings

ItemLinks == [i \in 1..Len(items) |-> items[i].link]

\* C3: a malformed bubble never aborts the feed: a page fetched with status
\* 200 always gives a feed, which holds the items of the well-formed bubbles.
C3_MalformedNeverAborts ==
    (fetched.status = 200 /\ pc = "done") =>
        /\ response.statusCode = 200
        /\ \A i \in 1..Len(fetched.doc.bubbles) :
              WellFormed(fetched.doc.bubbles[i]) =>
                  \E k \in 1..Len(items) :
                      items[k].link = get_link(fetched.doc.bubbles[i]).s

RECURSIVE ExpectedLinks(_)
\* the links of the bubbles with a permalink, in document order
ExpectedLinks(bubbles) ==
    IF bubbles = <<>> THEN <<>>
    ELSE (IF HasPermalink(Head(bubbles)) THEN <<get_link(Head(bubbles)).s>> ELSE <<>>)
            \o ExpectedLinks(Tail(bubbles))

\* C4: the item list holds exactly one item per bubble with a non-empty
\* permalink href, in document order; the list handed to the feed covers
\* every bubble of the page, and a bubble without a permalink is no error.
C4_OneItemPerPermalink ==
    fetched.status = 200 =>
        /\ ItemLinks = ExpectedLinks(SubSeq(fetched.doc.bubbles, 1, idx))
        /\ (response.statusCode = 200 => idx = Len(fetched.doc.bubbles))
        /\ (response.statusCode = 400 => HasPermalink(fetched.doc.bubbles[idx + 1]))

\* a feed of two bubbles of which one had no permalink
C4_Witness ==
    /\ pc = "done"
    /\ response.statusCode = 200
    /\ Len(fetched.doc.bubbles) = 2
    /\ ~HasPermalink(fetched.doc.bubbles[1])
    /\ HasPermalink(fetched.doc.bubbles[2])
    /\ Len(items) = 1

\* the tokens that start an element in a serialized fragment
OpenAt(html) == {i \in 1..Len(html) : html[i] \in OpenToks}

\* C5: the output of sanitize_keep_links holds only a and br elements inside
\* the one wrapping paragraph, an a element has no attribute but href, rel
\* and target, and a br element has no attribute at all.
C5_OnlyLinksAndBareBreaks ==
    fn = "sanitize_keep_links" =>
        /\ \A i \in OpenAt(res) : res[i] \in {"<a", "<br"} \/ (res[i] = "<p" /\ i = 1)
        /\ \A i \in 1..Len(res) : res[i] \in AttrToks => res[i] \in {" href=", " rel=", " target="}
        /\ \A i \in OpenAt(res) : res[i] = "<br" => (i < Len(res) /\ res[i + 1] = "/>")

\* the attribute at position i of a serialized fragment is quoted and its
\* value ends where the tag goes on
ValueClosed(html, i) ==
    /\ i + 1 <= Len(html)
    /\ html[i + 1] \in Quotes
    /\ FirstAt(html, i + 2, html[i + 1]) > 0
    /\ FirstAt(html, i + 2, html[i + 1]) < Len(html)
    /\ html[FirstAt(html, i + 2, html[i + 1]) + 1] \in AttrToks \cup {">", "/>"}

\* C6: the description of an item has no attribute but href, src, rel and
\* target, and no attribute value ends before its closing quote.  (The
\* referrerpolicy that line 122 itself writes on every img is left aside.)
C6_DescriptionAttributes ==
    (fn = "build_item" /\ res.ret # <<>>) =>
        \A i \in 1..Len(res.ret[1].description) :
            res.ret[1].description[i] \in AttrToks =>
                /\ res.ret[1].description[i] \in
                      {" href=", " src=", " rel=", " target=", " referrerpolicy="}
                /\ ValueClosed(res.ret[1].description, i)

\* a node is decorative, as the claim defines it
Decorative(e) ==
    \/ \E k \in 1..Len(e.anc) : HasSub(e.anc[k].cls, "tgme_widget_message_reactions")
    \/ HasSub(GetAttr(e.node, "class", <<>>), "emoji")
    \/ \E m \in {"/emoji/", "/stickers/", "emoji-static", "emoji-animated"} :
          HasSub(GetAttr(e.node, "src", <<>>), m)
    \/ HasSub(GetAttr(e.node, "style", <<>>), "emoji")
    \/ HasSub(GetAttr(e.node, "style", <<>>), "sticker")

\* the URLs the claim lists, in its order, before duplicates are removed
Candidates(div) ==
    LET ds == Descendants(div)
        bgs == SelectSeq(ds, LAMBDA e : /\ HasAttr(e.node, "style")
                                        /\ BgSearch(GetAttr(e.node, "style", <<>>)) # <<>>
                                        /\ ~Decorative(e))
        previews == SelectSeq(ds, IsPreviewImg)
        imgs == SelectSeq(ds, LAMBDA e : IsImgSrc(e) /\ ~Decorative(e))
    IN  [i \in 1..Len(bgs) |-> BgSearch(GetAttr(bgs[i].node, "style", <<>>))]
        \o (IF previews # <<>> /\ ~Decorative(previews[1])
            THEN <<GetAttr(previews[1].node, "src", <<>>)>> ELSE <<>>)
        \o [i \in 1..Len(imgs) |-> GetAttr(imgs[i].node, "src", <<>>)]

FirstIndex(s, u) == CHOOSE i \in 1..Len(s) : s[i] = u /\ \A j \in 1..(i - 1) : s[j] # u

\* r is s without the later duplicates
IsDedupOf(r, s) ==
    /\ \A i, j \in 1..Len(r) : i # j => r[i] # r[j]
    /\ {r[i] : i \in 1..Len(r)} = {s[i] : i \in 1..Len(s)}
    /\ \A i, j \in 1..Len(r) : i < j => FirstIndex(s, r[i]) < FirstIndex(s, r[j])

\* C7: get_photo_assets returns the background images of the non-decorative
\* styled elements, then the first link-preview image if non-decorative,
\* then the sources of the non-decorative img elements, each URL once, at
\* the place of its first occurrence.
C7_PhotosOrderedAndUnique ==
    fn = "get_photo_assets" => IsDedupOf(res, Candidates(arg))

\* a photo given both as a background image and as an img is listed once
C7_Witness ==
    /\ fn = "get_photo_assets"
    /\ Len(arg.kids) = 2
    /\ Len(Candidates(arg)) = 2
    /\ \E i \in 1..Len(arg.kids) : arg.kids[i].name = "img"
    /\ \E i \in 1..Len(arg.kids) : HasAttr(arg.kids[i], "style")
    /\ res = <<Photo1>>

\* C8: absolutize_links replaces a quoted href or src value that begins with
\* "/" by base + path, leaves any value that does not begin with "/" as it
\* is, and gives the same result when applied twice.
C8_RelativeValuesJoined ==
    fn = "absolutize_links" =>
        LET a == arg[2]
            q == arg[3]
            v == SubSeq(arg, 4, Len(arg) - 2)
        IN  /\ (a \in {" href=", " src="} /\ v # <<>> /\ v[1] = "/") =>
                   res = <<"<a", a, q>> \o TelegramBase \o Tail(v) \o <<q, ">">>
            /\ (v = <<>> \/ v[1] # "/") => res = arg
            /\ absolutize_links(res, TelegramBase) = res

\* the HTML-escaped form of a text
EscapedForm(t) ==
    [i \in 1..Len(t) |->
        CASE t[i] = "&" -> "&amp;"
          [] t[i] = "<" -> "&lt;"
          [] t[i] = ">" -> "&gt;"
          [] t[i] = "\"" -> "&quot;"
          [] t[i] = "'" -> "&#x27;"
          [] OTHER -> t[i]]

RECURSIVE StripATags(_)
\* s with every <a ...> opening tag and every </a> closing tag removed
StripATags(s) ==
    IF s = <<>> THEN <<>>
    ELSE IF Head(s) = "</a>" THEN StripATags(Tail(s))
    ELSE IF Head(s) = "<a" /\ FirstAt(s, 1, ">") > 0
         THEN StripATags(SubSeq(s, FirstAt(s, 1, ">") + 1, Len(s)))
    ELSE <<Head(s)>> \o StripATags(Tail(s))

\* C9: the output of autolink_plain with the a tags removed is the
\* HTML-escaped input text, and empty or None input gives the empty string.
C9_ContentPreserved ==
    fn = "autolink_plain" =>
        /\ StripATags(res) = EscapedForm(arg.s)
        /\ (Falsy(arg) => res = <<>>)

\* a text with a URL after a character to escape, and one to escape in it
C9_Witness ==
    /\ fn = "autolink_plain"
    /\ arg = Str(<<"<", "http://", "&">>)
    /\ Contains(res, "<a")
    /\ Contains(res, "&lt;")

\* the full content of an item: its content:encoded without the CDATA frame
FullContent(it) ==
    SubSeq(it.extensions[1]._html, 2, Len(it.extensions[1]._html) - 1)

\* C10: an emitted item has non-empty full content: the rich content
\* followed by the photo tags when either is non-empty, else the item's
\* link, which is non-empty.
C10_FullContentNonEmpty ==
    (fn = "build_item" /\ res.ret # <<>>) =>
        /\ res.ret[1].link # <<>>
        /\ FullContent(res.ret[1]) # <<>>
        /\ FullContent(res.ret[1]) =
              IF get_html(arg) # <<>> \/ get_photo_assets(arg) # <<>>
              THEN get_html(arg) \o MediaHtml(get_photo_assets(arg))
              ELSE res.ret[1].link

\* an item with neither text nor photos, whose content is its link
C10_Witness ==
    /\ fn = "build_item"
    /\ res.ret # <<>>
    /\ get_html(arg) = <<>>
    /\ get_photo_assets(arg) = <<>>
    /\ FullContent(res.ret[1]) = res.ret[1].link

====
